---- MODULE Spec2Model ----
(***************************************************************************)
(* Model of src/dataset/evaluate.py: the AIcrowdEvaluator of the ImageCLEF *)
(* Aware task.  The evaluator loads a ground truth at construction; each   *)
(* _evaluate call parses a submission, validates it (load_predictions),    *)
(* and scores it (compute_primary_score, compute_secondary_score).         *)
(*                                                                         *)
(* JSON values are records [type, val, items]: type is the name of the     *)
(* Python type json.load produces, val the number of a numeric value, and  *)
(* items the entries of a container in iteration order, each [k, v]: for a *)
(* dict k is the key and v the value; for a list k is the element (the     *)
(* lists modelled hold strings); for a str k is the character.             *)
(* Python floats are fixed-point numbers in units of 1/Scale, with a       *)
(* not-a-number value: sums and products are exact, so the model says      *)
(* nothing about the rounding of the last bits of a float.  The JSON       *)
(* literals NaN and Infinity, which json.load accepts, are not modelled.   *)
(***************************************************************************)
EXTENDS Integers, Sequences, FiniteSets, TLC

\* ------------------------------------------------------------ bounds
\* Largest number of _evaluate calls on one evaluator (SpecCalls).
MaxCalls == 3
\* Stand-in for sys.float_info.max: float() of a larger int overflows.
FloatMax == 8
\* Resolution of the fixed-point representation of a float.
Scale == 1000

\* ------------------------------------------------------------ JSON values
Pair(k, v) == [k |-> k, v |-> v]
Scalar(t, n) == [type |-> t, val |-> n, items |-> <<>>]
None == Scalar("NoneType", 0)
Dict(items) == [type |-> "dict", val |-> 0, items |-> items]
List(items) == [type |-> "list", val |-> 0, items |-> items]
Str(chars) ==
  [type |-> "str", val |-> 0,
   items |-> [i \in DOMAIN chars |-> Pair(chars[i], None)]]

\* d.keys(), or the elements of a list, as a set
Keys(d) == {d.items[i].k : i \in DOMAIN d.items}
\* d[k] for a key the dict holds
Get(d, k) == d.items[CHOOSE i \in DOMAIN d.items : d.items[i].k = k].v
\* d[k] = v: an existing key keeps its place, a new key is appended
Put(d, k, v) ==
  IF k \in Keys(d)
  THEN Dict([i \in DOMAIN d.items |->
               IF d.items[i].k = k THEN Pair(k, v) ELSE d.items[i]])
  ELSE Dict(Append(d.items, Pair(k, v)))

REQUIRED_SITUATION_CODES == <<"acc", "it", "bank", "wait">>
RequiredSet == {REQUIRED_SITUATION_CODES[i] : i \in DOMAIN REQUIRED_SITUATION_CODES}

Min(S) == CHOOSE x \in S : \A y \in S : x <= y

\* ------------------------------------------------------------ exceptions
\* An exception is [exc, kind, record, profile, code, count, raised_in]: its
\* class, which message it carries, the values the message is formatted with
\* (record 0, profile "", code "", count -1: the message has none) and the
\* method that raised it
NoError ==
  [exc |-> "none", kind |-> "", record |-> 0, profile |-> "", code |-> "",
   count |-> -1, raised_in |-> ""]
\* A builtin exception raised by the interpreter (TypeError, KeyError, ...)
PyError(exc, method) == [NoError EXCEPT !.exc = exc, !.raised_in = method]
\* lines 82-84: the submission file is not valid JSON
LoadError ==
  [NoError EXCEPT !.exc = "Exception", !.kind = "load",
                  !.raised_in = "load_predictions"]
\* lines 90-92: Exception(message, len(user_data_items.keys()))
CountError(n) ==
  [NoError EXCEPT !.exc = "Exception", !.kind = "count", !.count = n,
                  !.raised_in = "load_predictions"]
\* lines 164-165: the formatted message names the profile and, where the
\* message has one, the situation code, and ends with the record number
raise_exception(message, record_count, user_profile, situation_code) ==
  [exc |-> "Exception", kind |-> message, record |-> record_count,
   profile |-> user_profile, code |-> situation_code, count |-> -1,
   raised_in |-> "load_predictions"]

\* ------------------------------------------------------------ validation
\* A faulty variant: isinstance(score, (int, float)) also admits bool
IsNumberIsinstance(score) == score.type \in {"int", "float", "bool"}
\* line 174: type(score).__name__ is "int" or "float"
IsNumber(score) == score.type \in {"int", "float"}

\* lines 167-177
validate_score(args) ==
  IF ~IsNumber(args.score)
  THEN raise_exception("score_not_number", args.record_count,
                       args.user_profile, args.situation_code)
  ELSE NoError

\* A faulty variant: only a submission with too many profiles is rejected
CountMismatchLarger(user_data_items, allowed) ==
  Len(user_data_items.items) > Cardinality(allowed)
\* line 90
CountMismatch(user_data_items, allowed) ==
  Len(user_data_items.items) # Cardinality(allowed)

\* A faulty variant: the membership check is missing
ProfileAlwaysAllowed(user_profile, allowed) == TRUE
\* line 99
ProfileAllowed(user_profile, allowed) == user_profile \in allowed

\* A faulty variant: the counter is 0-based
RecordCountZeroBased(rc) == rc
\* line 96
NextRecordCount(rc) == rc + 1

\* float(x) of an int or a float: OverflowError beyond the float range
FloatOverflows(x) ==
  x.type = "int" /\ (x.val > FloatMax \/ x.val < -FloatMax)
Float(x) == Scalar("float", x.val)

\* lines 130-153: scores[code] followed by validate_score, for one code
ScoreCheck(scores, code, user_profile, record_count) ==
  IF scores.type # "dict" THEN PyError("TypeError", "load_predictions")
  ELSE IF code \notin Keys(scores) THEN PyError("KeyError", "load_predictions")
  ELSE validate_score([score |-> Get(scores, code), situation_code |-> code,
                       user_profile |-> user_profile,
                       record_count |-> record_count])

\* A faulty variant: "it" is copied from "acc"
StoredRecordSwapped(scores) ==
  Dict(<<Pair("acc", Float(Get(scores, "acc"))),
         Pair("it", Float(Get(scores, "acc"))),
         Pair("bank", Float(Get(scores, "bank"))),
         Pair("wait", Float(Get(scores, "wait")))>>)
\* lines 155-160
StoredRecord(scores) ==
  Dict(<<Pair("acc", Float(Get(scores, "acc"))),
         Pair("it", Float(Get(scores, "it"))),
         Pair("bank", Float(Get(scores, "bank"))),
         Pair("wait", Float(Get(scores, "wait")))>>)

\* lines 98-160: the body of the loop for one record; the exception raised,
\* or NoError when the record is stored
RecordError(user_profile, scores, record_count, allowed) ==
  IF ~ProfileAllowed(user_profile, allowed)
  THEN raise_exception("unknown_profile", record_count, user_profile, "")
  ELSE IF scores.type \notin {"dict", "list", "str"}
  THEN PyError("TypeError", "load_predictions")
  ELSE IF Len(scores.items) # 4
  THEN raise_exception("field_count", record_count, user_profile, "")
  ELSE IF \E i \in DOMAIN scores.items : scores.items[i].k \notin RequiredSet
  THEN LET i == Min({j \in DOMAIN scores.items :
                       scores.items[j].k \notin RequiredSet})
       IN raise_exception("unknown_code", record_count, user_profile,
                          scores.items[i].k)
  ELSE LET check(i) == ScoreCheck(scores, REQUIRED_SITUATION_CODES[i],
                                  user_profile, record_count)
           bad == {i \in DOMAIN REQUIRED_SITUATION_CODES : check(i) # NoError}
       IN IF bad # {} THEN check(Min(bad))
          ELSE IF \E i \in DOMAIN REQUIRED_SITUATION_CODES :
                    FloatOverflows(Get(scores, REQUIRED_SITUATION_CODES[i]))
          THEN PyError("OverflowError", "load_predictions")
          ELSE NoError

\* ------------------------------------------------------------ scoring
NaN == [nan |-> TRUE, v |-> 0]
Num(n) == [nan |-> FALSE, v |-> n]
FAdd(a, b) == IF a.nan \/ b.nan THEN NaN ELSE Num(a.v + b.v)
FDiv(a, n) == IF a.nan THEN NaN ELSE Num(a.v \div n)

RECURSIVE SumSeq(_)
SumSeq(s) == IF s = <<>> THEN 0 ELSE Head(s) + SumSeq(Tail(s))
Times(x, y) == [i \in DOMAIN x |-> x[i] * y[i]]
\* floor(sqrt(q)) for lo*lo <= q < (hi+1)*(hi+1), by bisection
RECURSIVE Bisect(_, _, _)
Bisect(q, lo, hi) ==
  IF lo = hi THEN lo
  ELSE LET mid == (lo + hi + 1) \div 2
       IN IF mid * mid <= q THEN Bisect(q, mid, hi) ELSE Bisect(q, lo, mid - 1)
ISqrt(q) == Bisect(q, 0, Scale)

\* scipy.stats.pearsonr(x, y)[0] on vectors of equal length:
\*   r = sum((x - mx)(y - my)) / sqrt(sum((x - mx)^2) sum((y - my)^2)),
\* not-a-number when either vector is constant (or shorter than 2)
pearsonr(x, y) ==
  LET n == Len(x)
      num == n * SumSeq(Times(x, y)) - SumSeq(x) * SumSeq(y)
      dx == n * SumSeq(Times(x, x)) - SumSeq(x) * SumSeq(x)
      dy == n * SumSeq(Times(y, y)) - SumSeq(y) * SumSeq(y)
  IN IF dx * dy = 0 THEN NaN
     ELSE LET r == ISqrt((num * num * Scale * Scale) \div (dx * dy))
          IN Num(IF num < 0 THEN -r ELSE r)

\* lines 195-197: gt_list for one situation, in the ground truth's order
GtList(g, sit) == [i \in DOMAIN g.items |-> Get(g.items[i].v, sit).val]
\* A faulty variant: predictions are taken by position in the submission
PredictionsListByPosition(g, preds, sit) ==
  [i \in DOMAIN g.items |-> Get(preds.items[i].v, sit).val]
\* lines 195-198: predictions_list, looked up by the ground truth's profile
PredictionsList(g, preds, sit) ==
  [i \in DOMAIN g.items |-> Get(Get(preds, g.items[i].k), sit).val]

\* line 198: predictions[user] raises KeyError for a profile not stored
PredictionsComplete(g, preds) == Keys(g) \subseteq Keys(preds)

\* lines 189-204; order is the iteration order of the set of situations
RECURSIVE SumCorrelation(_, _, _)
SumCorrelation(g, preds, order) ==
  IF order = <<>> THEN Num(0)
  ELSE LET sit == order[Len(order)]
       IN FAdd(SumCorrelation(g, preds, SubSeq(order, 1, Len(order) - 1)),
               pearsonr(GtList(g, sit), PredictionsList(g, preds, sit)))
compute_primary_score(g, preds, order) ==
  FDiv(SumCorrelation(g, preds, order), Len(order))

\* lines 207-217
compute_secondary_score(preds) == Num(0)

\* ------------------------------------------------------------ inputs
\* The profiles a ground truth or a submission may hold: each holds any
\* number of them, from none to all three
Profiles == <<"u1", "u2", "u3">>
ProfileSet == {Profiles[i] : i \in DOMAIN Profiles}

IntV(n) == Scalar("int", n)
FloatV(n) == Scalar("float", n)
Scores(a, i, b, w) ==
  Dict(<<Pair("acc", a), Pair("it", i), Pair("bank", b), Pair("wait", w)>>)

\* Ground-truth records: four JSON numbers each
RecP == Scores(IntV(1), IntV(2), IntV(3), IntV(4))
RecQ == Scores(FloatV(2), FloatV(1), FloatV(1), FloatV(2))
GtRecords == {RecP, RecQ}

\* An int beyond the float range, e.g. the JSON literal 1e400 written out
HugeInt == IntV(FloatMax + 1)
StrScore == Str(<<"2", "2", ".", "4">>)

\* Submission records: the two valid ones and one per kind of defect
RecThree == Dict(<<Pair("acc", IntV(1)), Pair("it", IntV(2)), Pair("bank", IntV(3))>>)
RecUnknownCode ==
  Dict(<<Pair("wait", IntV(4)), Pair("foo", IntV(1)), Pair("it", IntV(2)),
         Pair("acc", IntV(1))>>)
RecStrScore == Scores(IntV(1), StrScore, IntV(3), IntV(4))
RecHuge == Scores(IntV(1), IntV(2), HugeInt, IntV(4))
RecList ==
  List(<<Pair("acc", None), Pair("it", None), Pair("bank", None),
         Pair("wait", None)>>)
SubRecords ==
  {RecP, RecQ, RecThree, RecUnknownCode, RecStrScore, RecHuge, RecList}

\* The JSON objects with at most n distinct keys from ks (in every order)
\* and values from recs
ObjectsOfSize(ks, recs, m) ==
  {Dict([i \in 1..m |-> Pair(keys[i], vals[i])]) :
     keys \in {f \in [1..m -> ks] : \A i, j \in 1..m : f[i] = f[j] => i = j},
     vals \in [1..m -> recs]}
Objects(ks, recs, n) == UNION {ObjectsOfSize(ks, recs, m) : m \in 0..n}

\* The JSON objects whose keys are a subset of Profiles, in the order of
\* Profiles (permuting a ground truth and its submissions together changes
\* nothing the evaluator reads; the submissions come in every order)
RECURSIVE Select(_, _, _)
Select(keep, vals, i) ==
  IF i > Len(Profiles) THEN <<>>
  ELSE IF Profiles[i] \in keep
       THEN <<Pair(Profiles[i], vals[Profiles[i]])>> \o Select(keep, vals, i + 1)
       ELSE Select(keep, vals, i + 1)
GroundTruths ==
  {Dict(Select(keep, vals, 1)) :
     keep \in SUBSET ProfileSet,
     vals \in [ProfileSet -> GtRecords]}

\* A file is text that is not JSON, or a JSON value
NotJson == [json |-> FALSE, data |-> None]
File(value) == [json |-> TRUE, data |-> value]
NoFile == [json |-> FALSE, data |-> Dict(<<>>)]

SubmissionFiles ==
  {File(d) : d \in Objects(ProfileSet, SubRecords, Len(Profiles))}
    \cup {NotJson, File(List(<<>>))}

\* ------------------------------------------------------------ state
VARIABLES
  gt,               \* self.gt, loaded at construction (lines 14-21, 46-55)
  short_raises,     \* whether the installed pearsonr raises on fewer than 2 points
  pc,               \* where the current _evaluate call stands
  calls,            \* _evaluate calls completed
  submission,       \* the file client_payload names
  predictions,      \* load_predictions' local (line 87)
  record_count,     \* load_predictions' local (lines 94, 96)
  pos,              \* how many records the loop of line 95 has taken
  error,            \* the exception the call raised
  result,           \* the _result_object the call returned
  first             \* history: the first completed call and its outcome

vars ==
  <<gt, short_raises, pc, calls, submission, predictions, record_count, pos,
    error, result, first>>

user_data_items == submission.data

NoResult == [returned |-> FALSE, score |-> Num(0), score_secondary |-> Num(0)]
NoCall == [file |-> NoFile, pc |-> "idle", error |-> NoError, result |-> NoResult]

\* A faulty variant: the counter of the previous call is kept
StaleRecordCount == record_count
\* line 94
InitialRecordCount == 0

\* line 190: the set of situations iterates in an order the build fixes
SituationOrders ==
  {o \in [1..4 -> RequiredSet] : \A i, j \in 1..4 : o[i] = o[j] => i = j}

InitWith(gts) ==
  /\ gt \in gts
  /\ short_raises \in BOOLEAN
  /\ pc = "idle"
  /\ calls = 0
  /\ submission = NoFile
  /\ predictions = Dict(<<>>)
  /\ record_count = 0
  /\ pos = 0
  /\ error = NoError
  /\ result = NoResult
  /\ first = NoCall

Init == InitWith(GroundTruths)

\* The call on file f ends: it raised e (p = "failed") or returned r (p = "done")
Complete(f, p, e, r) ==
  /\ pc' = p
  /\ error' = e
  /\ result' = r
  /\ calls' = calls + 1
  /\ first' = IF first = NoCall
              THEN [file |-> f, pc |-> p, error |-> e, result |-> r]
              ELSE first

\* lines 24-34, 79-87: _evaluate is called on one of the files; json.load,
\* predictions = {}
LoadSubmission(files) ==
  /\ pc \in {"idle", "done", "failed"}
  /\ calls < MaxCalls
  /\ \E f \in files :
       /\ submission' = f
       /\ predictions' = Dict(<<>>)
       /\ pos' = 0
       /\ UNCHANGED <<gt, short_raises, record_count>>
       /\ IF f.json
          THEN /\ pc' = "count"
               /\ error' = NoError
               /\ result' = NoResult
               /\ UNCHANGED <<calls, first>>
          ELSE Complete(f, "failed", LoadError, NoResult)

\* lines 86-94
CheckCount ==
  /\ pc = "count"
  /\ UNCHANGED <<gt, short_raises, submission, predictions, pos>>
  /\ IF user_data_items.type # "dict"
     THEN /\ Complete(submission, "failed", PyError("AttributeError", "load_predictions"), NoResult)
          /\ UNCHANGED record_count
     ELSE IF CountMismatch(user_data_items, Keys(gt))
     THEN /\ Complete(submission, "failed",
                      CountError(Len(user_data_items.items)), NoResult)
          /\ UNCHANGED record_count
     ELSE /\ pc' = "loop"
          /\ record_count' = InitialRecordCount
          /\ UNCHANGED <<calls, error, result, first>>

\* lines 95-160: one iteration of the loop over the submission's profiles
ValidateRecord ==
  /\ pc = "loop"
  /\ pos < Len(user_data_items.items)
  /\ pos' = pos + 1
  /\ record_count' = NextRecordCount(record_count)
  /\ UNCHANGED <<gt, short_raises, submission>>
  /\ LET entry == user_data_items.items[pos + 1]
         e == RecordError(entry.k, entry.v, NextRecordCount(record_count), Keys(gt))
     IN IF e # NoError
        THEN /\ Complete(submission, "failed", e, NoResult)
             /\ UNCHANGED predictions
        ELSE /\ predictions' = Put(predictions, entry.k, StoredRecord(entry.v))
             /\ UNCHANGED <<pc, calls, error, result, first>>

\* line 162: the loop is over, load_predictions returns predictions
ReturnPredictions ==
  /\ pc = "loop"
  /\ pos = Len(user_data_items.items)
  /\ pc' = "score"
  /\ UNCHANGED <<gt, short_raises, calls, submission, predictions,
                 record_count, pos, error, result, first>>

\* lines 35-43: the two scores and the result object
ComputeScores ==
  /\ pc = "score"
  /\ UNCHANGED <<gt, short_raises, submission, predictions, record_count, pos>>
  /\ IF ~PredictionsComplete(gt, predictions)
     THEN Complete(submission, "failed", PyError("KeyError", "compute_primary_score"),
                   NoResult)
     ELSE IF short_raises /\ Len(gt.items) < 2
     THEN Complete(submission, "failed", PyError("ValueError", "compute_primary_score"),
                   NoResult)
     ELSE \E order \in SituationOrders :
            Complete(submission, "done", NoError,
                     [returned |-> TRUE,
                      score |-> compute_primary_score(gt, predictions, order),
                      score_secondary |-> compute_secondary_score(predictions)])

\* One _evaluate call on any of the submission files
Next ==
  \/ calls = 0 /\ LoadSubmission(SubmissionFiles)
  \/ CheckCount
  \/ ValidateRecord
  \/ ReturnPredictions
  \/ ComputeScores

Spec == Init /\ [][Next]_vars

\* ------------------------------------------------------------ one record
\* One _evaluate call on a submission of one record, against a ground truth
\* of one profile: every type of value at each of the four codes, every
\* selection of fields, and records that are no JSON object
TypedValues ==
  {IntV(1), HugeInt, FloatV(2), StrScore, Scalar("bool", 1), None,
   List(<<>>), Dict(<<>>)}
FourCodeRecords ==
  {Scores(a, i, b, w) : a \in TypedValues, i \in TypedValues,
                        b \in TypedValues, w \in TypedValues}
FieldNames == <<"wait", "foo", "bank", "it", "acc">>
RECURSIVE Fields(_, _)
Fields(keep, i) ==
  IF i > Len(FieldNames) THEN <<>>
  ELSE IF i \in keep
       THEN <<Pair(FieldNames[i], IntV(i))>> \o Fields(keep, i + 1)
       ELSE Fields(keep, i + 1)
FieldRecords == {Dict(Fields(keep, 1)) : keep \in SUBSET DOMAIN FieldNames}
OtherRecords == {RecList, StrScore, None, IntV(1), List(<<>>)}
RecordFiles ==
  {File(Dict(<<Pair("u1", r)>>)) :
     r \in FourCodeRecords \cup FieldRecords \cup OtherRecords}

InitRecord == InitWith({Dict(<<Pair("u1", RecP)>>)})

NextRecord ==
  \/ calls = 0 /\ LoadSubmission(RecordFiles)
  \/ CheckCount
  \/ ValidateRecord
  \/ ReturnPredictions
  \/ ComputeScores

SpecRecord == InitRecord /\ [][NextRecord]_vars

\* ------------------------------------------------------------ many calls
\* Up to MaxCalls _evaluate calls on one evaluator, each on any of a few
\* files (valid ones, and ones rejected at the first or the second record)
CallProfiles == {"u1", "u2"}
CallFiles ==
  {File(d) : d \in Objects(CallProfiles, {RecP, RecStrScore, RecHuge}, 2)}
    \cup {NotJson}
CallGroundTruths == {g \in GroundTruths : Keys(g) \subseteq CallProfiles}

InitCalls == InitWith(CallGroundTruths)

NextCalls ==
  \/ LoadSubmission(CallFiles)
  \/ CheckCount
  \/ ValidateRecord
  \/ ReturnPredictions
  \/ ComputeScores

SpecCalls == InitCalls /\ [][NextCalls]_vars

\* ------------------------------------------------------------ properties
Completed == pc \in {"done", "failed"}
IsObject == submission.json /\ user_data_items.type = "dict"
Records == user_data_items.items
\* The validation errors load_predictions documents
ValidationKinds ==
  {"count", "unknown_profile", "field_count", "unknown_code", "score_not_number"}
NumericTypes == {"int", "float"}

\* A record as the submission format asks for it: a JSON object of exactly
\* the four situation codes, each an int or a float
HasFourCodes(r) ==
  r.type = "dict" /\ Len(r.items) = 4 /\ Keys(r) = RequiredSet
AllNumeric(r) == \A c \in RequiredSet : Get(r, c).type \in NumericTypes
InFloatRange(r) ==
  \A c \in RequiredSet : Get(r, c).val <= FloatMax /\ Get(r, c).val >= -FloatMax
WellFormed(r) == HasFourCodes(r) /\ AllNumeric(r) /\ InFloatRange(r)

\* C1: whenever load_predictions returns, the returned predictions hold
\* exactly the ground truth's profiles: as many, and the same ones.
C1_ReturnedKeysEqualGroundTruth ==
  pc \in {"score", "done"} =>
    /\ Keys(predictions) = Keys(gt)
    /\ Len(predictions.items) = Len(gt.items)
    /\ \A i \in DOMAIN predictions.items : WellFormed(predictions.items[i].v)

\* load_predictions returned three profiles submitted in another order than
\* the ground truth's
C1_Witness ==
  /\ pc = "score"
  /\ Len(gt.items) = 3
  /\ Records[1].k # gt.items[1].k
  /\ Records[1].v # Records[2].v

\* C2: a submission (a JSON object) with another number of profiles than the
\* ground truth is rejected with the count-mismatch error, before any record
\* is looked at, whatever else is wrong with it.
C2_CountMismatchAlwaysRejected ==
  (IsObject /\ Len(Records) # Len(gt.items) /\ pc \notin {"idle", "count"}) =>
    /\ pc = "failed"
    /\ error = CountError(Len(Records))
    /\ pos = 0
    /\ predictions = Dict(<<>>)
    /\ ~result.returned

\* a longer submission whose first record is an unknown profile with a
\* string score, rejected for its count
C2_Witness ==
  /\ pc = "failed"
  /\ error.kind = "count"
  /\ Len(Records) = 2
  /\ Len(gt.items) = 1
  /\ Records[1].k \notin Keys(gt)
  /\ Records[1].v = RecStrScore

UnknownAt == {i \in DOMAIN Records : Records[i].k \notin Keys(gt)}

\* C3 as stated: a submission holding a profile the ground truth lacks is
\* rejected with the unknown-profile error.
C3_UnknownProfileError ==
  (IsObject /\ Completed /\ UnknownAt # {}) =>
    pc = "failed" /\ error.kind = "unknown_profile"

\* C3 as amended: a submission holding a profile the ground truth lacks is
\* always rejected: with the count-mismatch error when the counts differ;
\* otherwise with the unknown-profile error naming the first such profile and
\* its record number when every record before it is well formed, and with the
\* error of an earlier record when one is not.
C3_UnknownProfileRejected ==
  (IsObject /\ Completed /\ UnknownAt # {}) =>
    LET i == Min(UnknownAt)
    IN /\ pc = "failed"
       /\ ~result.returned
       /\ IF Len(Records) # Len(gt.items)
          THEN error.kind = "count"
          ELSE IF \A j \in 1..(i - 1) : WellFormed(Records[j].v)
          THEN error = raise_exception("unknown_profile", i, Records[i].k, "")
          ELSE pos < i /\ error.kind # "unknown_profile"

\* the spec's example: as many profiles as the ground truth, the second one
\* unknown, rejected at record 2
C3_Witness ==
  /\ pc = "failed"
  /\ Len(Records) = 2
  /\ Len(gt.items) = 2
  /\ Records[1].v = RecP
  /\ Records[2].k \notin Keys(gt)
  /\ error.kind = "unknown_profile"
  /\ error.record = 2

\* C4 as stated: every error the validation raises carries the 1-based
\* number of the record at which it occurred.
C4_EveryErrorHasRecordIndex ==
  (pc = "failed" /\ error.kind \in ValidationKinds) => error.record >= 1

\* C4 as amended: every error of a per-record check (unknown profile, field
\* count, unknown situation code, score not a number) carries the 1-based
\* number of the record it occurred at and that record's profile, and the two
\* errors about a situation code carry the code; the count-mismatch error is
\* raised before any record and carries the submission's profile count.
C4_RecordErrorsHaveIndex ==
  (pc = "failed" /\ error.kind \in ValidationKinds) =>
    IF error.kind = "count"
    THEN error.record = 0 /\ error.count = Len(Records) /\ pos = 0
    ELSE /\ pos \in DOMAIN Records
         /\ error.record = pos
         /\ error.profile = Records[pos].k
         /\ error.kind = "unknown_code" =>
              /\ error.code \in Keys(Records[pos].v)
              /\ error.code \notin RequiredSet
         /\ error.kind = "score_not_number" =>
              /\ error.code \in RequiredSet
              /\ Get(Records[pos].v, error.code).type \notin NumericTypes
         /\ error.kind \in {"unknown_profile", "field_count"} => error.code = ""

\* the third record has a string score: the error names record 3
C4_Witness ==
  /\ pc = "failed"
  /\ error.kind = "score_not_number"
  /\ error.record = 3
  /\ error.code = "it"

\* The first of the four codes, in the order acc, it, bank, wait, whose value
\* is no number
FirstNonNumeric(r) ==
  REQUIRED_SITUATION_CODES[
    Min({i \in DOMAIN REQUIRED_SITUATION_CODES :
           Get(r, REQUIRED_SITUATION_CODES[i]).type \notin NumericTypes})]

C5_WitnessBool ==
  /\ pc = "failed"
  /\ Len(Records) = 1
  /\ Records[1].v = Scores(Scalar("bool", 1), IntV(1), IntV(1), IntV(1))
  /\ error.kind = "score_not_number"

\* The violation the checks find in record i of the submission, in the order
\* unknown profile, field count, unknown situation code, score not a number
RecordViolation(i) ==
  LET p == Records[i].k
      r == Records[i].v
      unknown == {j \in DOMAIN r.items : r.items[j].k \notin RequiredSet}
  IN IF p \notin Keys(gt) THEN raise_exception("unknown_profile", i, p, "")
     ELSE IF Len(r.items) # 4 THEN raise_exception("field_count", i, p, "")
     ELSE IF unknown # {}
     THEN raise_exception("unknown_code", i, p, r.items[Min(unknown)].k)
     ELSE IF r.type = "dict" /\ ~AllNumeric(r)
     THEN raise_exception("score_not_number", i, p, FirstNonNumeric(r))
     ELSE NoError
ViolationsAt == {i \in DOMAIN Records : RecordViolation(i) # NoError}
FirstViolation ==
  IF Len(Records) # Len(gt.items) THEN CountError(Len(Records))
  ELSE RecordViolation(Min(ViolationsAt))

\* C6: an _evaluate call on a submission with one or more violations aborts
\* at the first violation in check order: it reports that violation, has
\* validated no later record, and returns no result.
C6_AbortsAtFirstViolation ==
  (IsObject /\ Completed
     /\ (Len(Records) # Len(gt.items) \/ ViolationsAt # {})) =>
    /\ pc = "failed"
    /\ error = FirstViolation
    /\ pos = error.record
    /\ Len(predictions.items) = (IF pos = 0 THEN 0 ELSE pos - 1)
    /\ ~result.returned

SameAsGroundTruth ==
  /\ IsObject
  /\ Keys(user_data_items) = Keys(gt)
  /\ Len(Records) = Len(gt.items)
  /\ \A i \in DOMAIN Records : Records[i].v = Get(gt, Records[i].k)
Varies(sit) ==
  \E i, j \in DOMAIN gt.items :
    Get(gt.items[i].v, sit).val # Get(gt.items[j].v, sit).val
One == Num(Scale)

\* C7 as stated: for a submission equal to the ground truth the primary
\* score is 1.0.
C7_CopyScoresOne ==
  (Completed /\ SameAsGroundTruth) => (pc = "done" /\ result.score = One)

\* C7 as amended: for a submission equal to the ground truth, when the
\* ground-truth values of every situation code are not all the same (so
\* there are two profiles or more), the Pearson correlation of every code is
\* 1.0 and the primary score is 1.0.
C7_CopyScoresOneWhenVarying ==
  (Completed /\ SameAsGroundTruth /\ \A sit \in RequiredSet : Varies(sit)) =>
    /\ pc = "done"
    /\ result.score = One
    /\ \A sit \in RequiredSet :
         pearsonr(GtList(gt, sit), PredictionsList(gt, predictions, sit)) = One

\* the ground truth of three profiles, submitted verbatim in another order
C7_Witness ==
  /\ pc = "done"
  /\ SameAsGroundTruth
  /\ Len(gt.items) = 3
  /\ Records[1].k # gt.items[1].k
  /\ \A sit \in RequiredSet : Varies(sit)
  /\ result.score = One

\* d with its entries in the order perm
Permuted(d, perm) == Dict([i \in DOMAIN d.items |-> d.items[perm[i]]])
PermutationsOf(d) ==
  {f \in [DOMAIN d.items -> DOMAIN d.items] :
     \A i, j \in DOMAIN d.items : f[i] = f[j] => i = j}

\* C8: the primary score of a valid submission is the same for every order
\* of the profiles in the ground truth and every order of the profiles in the
\* predictions: the values are paired by profile, not by position.
C8_ScoreIgnoresProfileOrder ==
  pc = "done" =>
    \A g \in PermutationsOf(gt), p \in PermutationsOf(predictions) :
      compute_primary_score(Permuted(gt, g), Permuted(predictions, p),
                            REQUIRED_SITUATION_CODES) = result.score

\* three profiles submitted in another order than the ground truth's, with a
\* score that is a number other than -1, 0 and 1
C8_Witness ==
  /\ pc = "done"
  /\ Len(gt.items) = 3
  /\ Records[1].k # gt.items[1].k
  /\ Records[2].k # gt.items[2].k
  /\ ~result.score.nan
  /\ result.score.v \notin {-Scale, 0, Scale}

Outcome == [pc |-> pc, error |-> error, result |-> result]
SameAsFirst ==
  (Completed /\ first # NoCall /\ submission = first.file) =>
    Outcome = [pc |-> first.pc, error |-> first.error, result |-> first.result]

\* C9: no step of any _evaluate call changes the ground truth, and a call on
\* the file of the first call ends as the first call did, whatever calls
\* came in between.
C9_CallsAreIndependent == [][gt' = gt /\ SameAsFirst']_vars

\* the third call repeats the first, which was rejected at its second record
C9_Witness ==
  /\ calls = 3
  /\ pc = "failed"
  /\ submission = first.file
  /\ first.error.record = 2
  /\ record_count = 2

\* C10: when every record of the submission is a JSON object, a record that
\* passed the field-count and the situation-code checks holds exactly the
\* four codes, no lookup fails, and load_predictions fails only with one of
\* its validation errors.
C10_OnlyValidationErrors ==
  (IsObject /\ pc = "failed" /\ error.raised_in = "load_predictions"
     /\ \A i \in DOMAIN Records : Records[i].v.type = "dict") =>
    /\ error.exc = "Exception"
    /\ error.kind \in ValidationKinds

====
